---- MODULE Spec2Model ----
(***************************************************************************)
(* Model of the <data-table> element of lit-data-table: the sort-state     *)
(* store (a Map from column to SortState), the in-place row sort composed  *)
(* from the per-column comparators, and the pagination slice.              *)
(***************************************************************************)
EXTENDS Integers, Sequences, FiniteSets

VARIABLES sortStates, data, multiSort, pageSize, pageIndex, call, ret, trace, dataOrigin

vars == <<sortStates, data, multiSort, pageSize, pageIndex, call, ret, trace, dataOrigin>>

----------------------------------------------------------------------------
(* Bounds of the model *)

MaxRows == 3
MaxPageRows == 10
MaxPageSize == 4
MaxPageIndex == 4
MaxNegative == 2

----------------------------------------------------------------------------
(* Cell values: the RenderPrimitive values a render callback or a selector *)
(* can return. A string is the sequence of its UTF-16 code units.          *)

Undefined == [t |-> "undefined", n |-> 0, s |-> <<>>]

Null == [t |-> "null", n |-> 0, s |-> <<>>]

Num(n) == [t |-> "number", n |-> n, s |-> <<>>]

Str(s) == [t |-> "string", n |-> 0, s |-> s]

isDefined(value) == value.t # "undefined" /\ value.t # "null"

StrictEquals(a, b) == a = b

RECURSIVE Digits(_)
Digits(n) == IF n < 10 THEN <<48 + n>> ELSE Digits(n \div 10) \o <<48 + (n % 10)>>

\* String(value) for a defined number or string value
StringOf(value) ==
    IF value.t = "number"
    THEN IF value.n < 0 THEN <<45>> \o Digits(0 - value.n) ELSE Digits(value.n)
    ELSE value.s

\* stringA < stringB: comparison by code units
StringLess(stringA, stringB) ==
    \E k \in 1..(Len(stringA) + 1) :
        /\ k <= Len(stringB)
        /\ \A i \in 1..(k - 1) : stringA[i] = stringB[i]
        /\ (k = Len(stringA) + 1 \/ stringA[k] < stringB[k])

----------------------------------------------------------------------------
(* Rows and columns. A row has two fields; colA is `sortable: true` and     *)
(* renders x, colB has a custom comparator numberComparator(row => row.y),  *)
(* colC has no sortable flag and renders y.                                 *)

Row(x, y) == [x |-> x, y |-> y]

Columns == {"colA", "colB", "colC"}

Sortable(column) == IF column = "colB" THEN "object" ELSE "boolean"

\* the field picked by the column's render callback or comparator selector
Selector(column) == IF column = "colA" THEN "x" ELSE "y"

RowPool ==
    { Row(Num(2), Num(3)), Row(Num(10), Num(1)), Row(Str(<<49, 97>>), Num(2)),
      Row(Undefined, Null), Row(Num(10), Num(3)) }

\* the rows of the collections assigned to `data` after construction
AssignPool == { Row(Num(2), Num(3)), Row(Num(10), Num(1)) }

\* the rows the comparators are applied to
ComparePool ==
    RowPool \cup { Row(Null, Undefined), Row(Num(2), Num(1)), Row(Str(<<50>>), Num(2)) }

\* the row collections of at most n distinct rows of S
Collections(S, n) ==
    { rows \in UNION { [1..k -> S] : k \in 0..n } :
        \A i, j \in 1..Len(rows) : rows[i] = rows[j] => i = j }

\* rows of the pagination runs: n distinct rows, already in ascending order
PageRows(n) == [i \in 1..n |-> Row(Num(i), Undefined)]

----------------------------------------------------------------------------
(* Comparators (utility.ts) *)

\* the matcher of numberComparator: (a, b) => a - b
NumberMatcher(a, b) == a.n - b.n

\* the matcher of the default comparator built in sortData
DefaultMatcher(valueA, valueB) ==
    IF valueA.t = "number" /\ valueB.t = "number"
    THEN valueA.n - valueB.n
    ELSE IF StringOf(valueA) = StringOf(valueB) THEN 0
         ELSE IF StringLess(StringOf(valueA), StringOf(valueB)) THEN -1 ELSE 1

Matcher(matcher, a, b) ==
    IF matcher = "number" THEN NumberMatcher(a, b) ELSE DefaultMatcher(a, b)

\* baseComparator returning 1 when only A is defined and -1 when only B is
BaseComparatorAbsentFirst(selector, matcher, sourceA, sourceB) ==
    LET a == sourceA[selector]
        b == sourceB[selector]
    IN  IF StrictEquals(a, b) \/ (~isDefined(a) /\ ~isDefined(b))
        THEN [result |-> 0, invoked |-> FALSE]
        ELSE IF isDefined(a) /\ isDefined(b)
             THEN [result |-> Matcher(matcher, a, b), invoked |-> TRUE]
             ELSE [result |-> IF isDefined(a) THEN 1 ELSE -1, invoked |-> FALSE]

\* baseComparator without the a === b test
BaseComparatorNoIdentity(selector, matcher, sourceA, sourceB) ==
    LET a == sourceA[selector]
        b == sourceB[selector]
    IN  IF ~isDefined(a) /\ ~isDefined(b)
        THEN [result |-> 0, invoked |-> FALSE]
        ELSE IF isDefined(a) /\ isDefined(b)
             THEN [result |-> Matcher(matcher, a, b), invoked |-> TRUE]
             ELSE [result |-> IF isDefined(a) THEN -1 ELSE 1, invoked |-> FALSE]

\* baseComparator(selector, matcher)(sourceA, sourceB): the result and
\* whether the matcher was invoked
BaseComparator(selector, matcher, sourceA, sourceB) ==
    LET a == sourceA[selector]
        b == sourceB[selector]
    IN  IF StrictEquals(a, b) \/ (~isDefined(a) /\ ~isDefined(b))
        THEN [result |-> 0, invoked |-> FALSE]
        ELSE IF isDefined(a) /\ isDefined(b)
             THEN [result |-> Matcher(matcher, a, b), invoked |-> TRUE]
             ELSE [result |-> IF isDefined(a) THEN -1 ELSE 1, invoked |-> FALSE]

\* numberComparator(selector)
NumberComparator(selector, sourceA, sourceB) ==
    BaseComparator(selector, "number", sourceA, sourceB)

----------------------------------------------------------------------------
(* The sort-state store: a Map, kept as the sequence of its entries in     *)
(* insertion order.                                                        *)

Range(s) == { s[i] : i \in 1..Len(s) }

MapHas(states, column) == \E i \in 1..Len(states) : states[i].column = column

MapGet(states, column) == states[CHOOSE i \in 1..Len(states) : states[i].column = column]

\* Map.set giving the entry of a key already present priority 1
MapSetFirst(states, column, direction, priority) ==
    LET entry == [column |-> column, direction |-> direction, priority |-> priority]
    IN  IF MapHas(states, column)
        THEN [i \in 1..Len(states) |->
                IF states[i].column = column THEN [entry EXCEPT !.priority = 1] ELSE states[i]]
        ELSE Append(states, entry)

MapSet(states, column, direction, priority) ==
    LET entry == [column |-> column, direction |-> direction, priority |-> priority]
    IN  IF MapHas(states, column)
        THEN [i \in 1..Len(states) |-> IF states[i].column = column THEN entry ELSE states[i]]
        ELSE Append(states, entry)

MapDelete(states, column) ==
    LET keep(e) == e.column # column IN SelectSeq(states, keep)

\* [...sortStates.entries()].sort((a, b) => a[1].priority - b[1].priority):
\* a stable sort, each entry inserted after the last one not greater than it
PriorityOrder(states) ==
    LET Insert(t, e) ==
            LET p == CHOOSE q \in 0..Len(t) :
                        /\ (q = 0 \/ t[q].priority - e.priority <= 0)
                        /\ \A j \in (q + 1)..Len(t) : t[j].priority - e.priority > 0
            IN  SubSeq(t, 1, p) \o <<e>> \o SubSeq(t, p + 1, Len(t))
        sorted[k \in 0..Len(states)] ==
            IF k = 0 THEN <<>> ELSE Insert(sorted[k - 1], states[k])
    IN  sorted[Len(states)]

\* the clear branch without the forEach: the remaining priorities are kept
RenumberSkipped(states) == states

\* the clear branch renumbering in descending priority order
RenumberReversed(states) ==
    [i \in 1..Len(states) |->
        [states[i] EXCEPT !.priority =
            1 + Cardinality({ j \in 1..Len(states) : states[j].priority > states[i].priority })]]

\* the forEach of the clear branch: priority: index + 1 in priority order
Renumber(states) ==
    LET order == PriorityOrder(states)
        NewPriority(column) == CHOOSE k \in 1..Len(order) : order[k].column = column
    IN  [i \in 1..Len(states) |-> [states[i] EXCEPT !.priority = NewPriority(states[i].column)]]

RECURSIVE ReduceMax(_, _)
ReduceMax(states, result) ==
    IF states = <<>> THEN result
    ELSE ReduceMax(Tail(states), IF Head(states).priority + 1 > result
                                 THEN Head(states).priority + 1 ELSE result)

\* the new priority as the maximum of the existing ones, without the + 1
NextPriorityOfMax(states) == IF states = <<>> THEN 1 ELSE ReduceMax(states, 1) - 1

\* reduce((result, { priority }) => Math.max(result, priority + 1), 1)
NextPriority(states) == ReduceMax(states, 1)

----------------------------------------------------------------------------
(* Row Ordering Engine (sortData) *)

\* the immediately-invoked function of the sort callback: the column's own
\* comparator, or the default comparator on the rendered value
ColumnResult(column, rowA, rowB) ==
    IF Sortable(column) = "object"
    THEN NumberComparator(Selector(column), rowA, rowB).result
    ELSE BaseComparator(Selector(column), "default", rowA, rowB).result

\* the sort callback returning the column result without the direction
RECURSIVE RowCompareUndirected(_, _, _)
RowCompareUndirected(priorityOrder, rowA, rowB) ==
    IF priorityOrder = <<>> THEN 0
    ELSE LET result == ColumnResult(Head(priorityOrder).column, rowA, rowB)
         IN  IF result # 0
             THEN result
             ELSE RowCompareUndirected(Tail(priorityOrder), rowA, rowB)

\* the callback given to data.sort: the first non-zero column result in
\* priority order, times the direction of that column
RECURSIVE RowCompare(_, _, _)
RowCompare(priorityOrder, rowA, rowB) ==
    IF priorityOrder = <<>> THEN 0
    ELSE LET result == ColumnResult(Head(priorityOrder).column, rowA, rowB)
         IN  IF result # 0
             THEN result * Head(priorityOrder).direction
             ELSE RowCompare(Tail(priorityOrder), rowA, rowB)

Sign(n) == IF n < 0 THEN -1 ELSE IF n > 0 THEN 1 ELSE 0

\* whether the sort callback is a "consistent comparison function"
\* (ECMAScript) for the rows: a row equals itself, the signs are
\* antisymmetric and "not greater" is transitive
ConsistentComparator(priorityOrder, rows) ==
    LET n == Len(rows)
    IN  /\ \A i \in 1..n : RowCompare(priorityOrder, rows[i], rows[i]) = 0
        /\ \A i \in 1..n : \A j \in (i + 1)..n :
            Sign(RowCompare(priorityOrder, rows[i], rows[j]))
                = 0 - Sign(RowCompare(priorityOrder, rows[j], rows[i]))
        /\ \A i \in 1..n : \A j \in 1..n \ {i} : \A k \in 1..n \ {i, j} :
            (RowCompare(priorityOrder, rows[i], rows[j]) <= 0
                /\ RowCompare(priorityOrder, rows[j], rows[k]) <= 0)
                => RowCompare(priorityOrder, rows[i], rows[k]) <= 0

\* a sort that keeps one row of each group of rows comparing equal
StableSortUnique(priorityOrder, rows) ==
    LET Insert(t, e) ==
            IF \E q \in 1..Len(t) : RowCompare(priorityOrder, t[q], e) = 0
            THEN t
            ELSE LET p == CHOOSE q \in 0..Len(t) :
                            /\ (q = 0 \/ RowCompare(priorityOrder, t[q], e) <= 0)
                            /\ \A j \in (q + 1)..Len(t) : RowCompare(priorityOrder, t[j], e) > 0
                 IN  SubSeq(t, 1, p) \o <<e>> \o SubSeq(t, p + 1, Len(t))
        sorted[k \in 0..Len(rows)] ==
            IF k = 0 THEN <<>> ELSE Insert(sorted[k - 1], rows[k])
    IN  sorted[Len(rows)]

\* data.sort(callback) with a consistent callback: the stable order, each
\* row inserted after the last one not greater than it
StableSort(priorityOrder, rows) ==
    LET Insert(t, e) ==
            LET p == CHOOSE q \in 0..Len(t) :
                        /\ (q = 0 \/ RowCompare(priorityOrder, t[q], e) <= 0)
                        /\ \A j \in (q + 1)..Len(t) : RowCompare(priorityOrder, t[j], e) > 0
            IN  SubSeq(t, 1, p) \o <<e>> \o SubSeq(t, p + 1, Len(t))
        sorted[k \in 0..Len(rows)] ==
            IF k = 0 THEN <<>> ELSE Insert(sorted[k - 1], rows[k])
    IN  sorted[Len(rows)]

\* the orders an inconsistent callback can leave: any rearrangement
Rearrangements(s) ==
    LET n == Len(s)
        bijections == { p \in [1..n -> 1..n] : \A i, j \in 1..n : p[i] = p[j] => i = j }
    IN  { [i \in 1..n |-> s[p[i]]] : p \in bijections }

\* sortData(): the orders data can have after the call. Array.prototype.sort
\* gives the stable order when the callback is a consistent comparison
\* function and an implementation-defined order otherwise
SortData(states, rows) ==
    LET priorityOrder == PriorityOrder(states)
    IN  IF Len(rows) < 2 THEN { rows }
        ELSE IF ConsistentComparator(priorityOrder, rows)
             THEN { StableSort(priorityOrder, rows) }
             ELSE Rearrangements(rows)

----------------------------------------------------------------------------
(* Sort State Store transitions *)

\* setColumnSort with the clear branch setting shouldSort = true
SetColumnSortClearSorts(states, column, direction) ==
    IF MapHas(states, column) /\ direction # 0 /\ MapGet(states, column).direction # direction
    THEN [sortStates |-> MapSet(states, column, direction, MapGet(states, column).priority),
          shouldSort |-> TRUE,
          trace |-> << <<"update", direction>> >>]
    ELSE IF MapHas(states, column) /\ direction = 0
    THEN [sortStates |-> Renumber(MapDelete(states, column)),
          shouldSort |-> TRUE,
          trace |-> << <<"delete", MapGet(states, column).priority>> >>]
    ELSE IF ~MapHas(states, column) /\ direction # 0
    THEN [sortStates |-> MapSet(states, column, direction, NextPriority(states)),
          shouldSort |-> TRUE,
          trace |-> << <<"insert", direction>> >>]
    ELSE [sortStates |-> states, shouldSort |-> FALSE, trace |-> <<>>]

\* setColumnSort up to the shouldSort test: the new store, shouldSort and
\* the branch taken
SetColumnSort(states, column, direction) ==
    IF MapHas(states, column) /\ direction # 0 /\ MapGet(states, column).direction # direction
    THEN [sortStates |-> MapSet(states, column, direction, MapGet(states, column).priority),
          shouldSort |-> TRUE,
          trace |-> << <<"update", direction>> >>]
    ELSE IF MapHas(states, column) /\ direction = 0
    THEN [sortStates |-> Renumber(MapDelete(states, column)),
          shouldSort |-> Len(MapDelete(states, column)) > 0,
          trace |-> << <<"delete", MapGet(states, column).priority>> >>]
    ELSE IF ~MapHas(states, column) /\ direction # 0
    THEN [sortStates |-> MapSet(states, column, direction, NextPriority(states)),
          shouldSort |-> TRUE,
          trace |-> << <<"insert", direction>> >>]
    ELSE [sortStates |-> states, shouldSort |-> FALSE, trace |-> <<>>]

\* (sortState?.direction ?? 1) * -1: an unsorted column starts descending
NextDirectionFromAscending(states, column) ==
    (IF MapHas(states, column) THEN MapGet(states, column).direction ELSE 1) * (-1)

\* (sortState?.direction ?? -1) * -1
NextDirection(states, column) ==
    (IF MapHas(states, column) THEN MapGet(states, column).direction ELSE -1) * (-1)

\* clearTableSort dropping only the entry of lowest precedence
ClearTableLast(states) ==
    [sortStates |-> SubSeq(states, 1, Len(states) - 1),
     trace |-> << <<"clear", Len(states)>>, <<"requestUpdate", 0>> >>]

\* the body of clearTableSort: the store and the calls made, with the
\* number of entries dropped
ClearTable(states) ==
    [sortStates |-> <<>>, trace |-> << <<"clear", Len(states)>>, <<"requestUpdate", 0>> >>]

\* toggleColumnSort without the implicit clear
ToggleClearNever(states, multi) == [sortStates |-> states, trace |-> <<>>]

\* if (!this.multiSort) this.clearTableSort()
ToggleClear(states, multi) ==
    IF ~multi THEN ClearTable(states) ELSE [sortStates |-> states, trace |-> <<>>]

Void == [kind |-> "void", rows |-> <<>>, number |-> 0]

Call(op, column) == [op |-> op, column |-> column]

\* setColumnSort calling requestUpdate before sortData
DoSetColumnSortRefreshFirst(states, column, direction, before) ==
    LET r == SetColumnSort(states, column, direction)
    IN  /\ sortStates' = r.sortStates
        /\ IF r.shouldSort
           THEN /\ data' \in SortData(r.sortStates, data)
                /\ dataOrigin' = "sorted"
                /\ trace' = before \o r.trace \o << <<"requestUpdate", 0>>, <<"sortData", 0>> >>
           ELSE /\ UNCHANGED <<data, dataOrigin>>
                /\ trace' = before \o r.trace \o << <<"requestUpdate", 0>> >>

\* setColumnSort calling requestUpdate only after a sort
DoSetColumnSortQuiet(states, column, direction, before) ==
    LET r == SetColumnSort(states, column, direction)
    IN  /\ sortStates' = r.sortStates
        /\ IF r.shouldSort
           THEN /\ data' \in SortData(r.sortStates, data)
                /\ dataOrigin' = "sorted"
                /\ trace' = before \o r.trace \o << <<"sortData", 0>>, <<"requestUpdate", 0>> >>
           ELSE /\ UNCHANGED <<data, dataOrigin>>
                /\ trace' = before \o r.trace

\* the whole of setColumnSort on the store `states`, after the calls `before`
DoSetColumnSort(states, column, direction, before) ==
    LET r == SetColumnSort(states, column, direction)
    IN  /\ sortStates' = r.sortStates
        /\ IF r.shouldSort
           THEN /\ data' \in SortData(r.sortStates, data)
                /\ dataOrigin' = "sorted"
                /\ trace' = before \o r.trace \o << <<"sortData", 0>>, <<"requestUpdate", 0>> >>
           ELSE /\ UNCHANGED <<data, dataOrigin>>
                /\ trace' = before \o r.trace \o << <<"requestUpdate", 0>> >>

clearTableSort ==
    /\ sortStates' = ClearTable(sortStates).sortStates
    /\ trace' = ClearTable(sortStates).trace
    /\ call' = Call("clearTableSort", "none")
    /\ ret' = Void
    /\ UNCHANGED <<data, dataOrigin, multiSort, pageSize, pageIndex>>

clearColumnSort(column) ==
    /\ DoSetColumnSort(sortStates, column, 0, <<>>)
    /\ call' = Call("clearColumnSort", column)
    /\ ret' = Void
    /\ UNCHANGED <<multiSort, pageSize, pageIndex>>

toggleColumnSort(column) ==
    LET cleared == ToggleClear(sortStates, multiSort)
        read == IF MapHas(sortStates, column) THEN MapGet(sortStates, column).direction ELSE 0
    IN  /\ DoSetColumnSort(cleared.sortStates, column, NextDirection(sortStates, column),
                           << <<"get", read>> >> \o cleared.trace)
        /\ call' = Call("toggleColumnSort", column)
        /\ ret' = Void
        /\ UNCHANGED <<multiSort, pageSize, pageIndex>>

----------------------------------------------------------------------------
(* Pagination View *)

\* Math.ceil(this.data.length / this.pageSize) for pageSize > 0
PageCount(rows, size) ==
    IF size > 0 THEN (Len(rows) + size - 1) \div size ELSE 0

\* Array.prototype.slice(start, end)
Slice(rows, start, end) ==
    LET len == Len(rows)
        k == IF start < 0 THEN (IF len + start > 0 THEN len + start ELSE 0)
             ELSE (IF start < len THEN start ELSE len)
        final == IF end < 0 THEN (IF len + end > 0 THEN len + end ELSE 0)
                 ELSE (IF end < len THEN end ELSE len)
    IN  SubSeq(rows, k + 1, final)

\* getDisplayData taking pageIndex as one-based
DisplayDataOneBased(rows, size, index) ==
    IF size # 0 THEN Slice(rows, (index - 1) * size, (index - 1) * size + size) ELSE rows

DisplayData(rows, size, index) ==
    IF size # 0 THEN Slice(rows, index * size, index * size + size) ELSE rows

getDisplayData ==
    /\ ret' = [kind |-> "rows", rows |-> DisplayData(data, pageSize, pageIndex), number |-> 0]
    /\ call' = Call("getDisplayData", "none")
    /\ trace' = <<>>
    /\ UNCHANGED <<sortStates, data, dataOrigin, multiSort, pageSize, pageIndex>>

----------------------------------------------------------------------------
(* Property assignments by the host *)

SetData(rows) ==
    /\ data' = rows
    /\ dataOrigin' = "assigned"
    /\ call' = Call("data", "none")
    /\ ret' = Void
    /\ trace' = << <<"requestUpdate", 0>> >>
    /\ UNCHANGED <<sortStates, multiSort, pageSize, pageIndex>>

SetMultiSort(flag) ==
    /\ multiSort' = flag
    /\ call' = Call("multiSort", "none")
    /\ ret' = Void
    /\ trace' = << <<"requestUpdate", 0>> >>
    /\ UNCHANGED <<sortStates, data, dataOrigin, pageSize, pageIndex>>

SetPageSize(size) ==
    /\ pageSize' = size
    /\ call' = Call("pageSize", "none")
    /\ ret' = Void
    /\ trace' = << <<"requestUpdate", 0>> >>
    /\ UNCHANGED <<sortStates, data, dataOrigin, multiSort, pageIndex>>

SetPageIndex(index) ==
    /\ pageIndex' = index
    /\ call' = Call("pageIndex", "none")
    /\ ret' = Void
    /\ trace' = << <<"requestUpdate", 0>> >>
    /\ UNCHANGED <<sortStates, data, dataOrigin, multiSort, pageSize>>

\* a column's comparator applied to the first two rows
CompareRows(column) ==
    LET r == IF Sortable(column) = "object"
             THEN NumberComparator(Selector(column), data[1], data[2])
             ELSE BaseComparator(Selector(column), "default", data[1], data[2])
    IN  /\ Len(data) = 2
        /\ ret' = [kind |-> "number", rows |-> <<>>, number |-> r.result]
        /\ call' = Call("comparator", column)
        /\ trace' = IF r.invoked THEN << <<"matcher", 0>> >> ELSE <<>>
        /\ UNCHANGED <<sortStates, data, dataOrigin, multiSort, pageSize, pageIndex>>

----------------------------------------------------------------------------
(* Specifications *)

Fresh ==
    /\ sortStates = <<>>
    /\ multiSort = FALSE
    /\ pageSize = 0
    /\ pageIndex = 0
    /\ call = Call("constructor", "none")
    /\ ret = Void
    /\ trace = <<>>
    /\ dataOrigin = "assigned"

\* the sorting behaviour of a table over every row collection of the bound;
\* later assignments to `data` draw from AssignPool
Init ==
    /\ Fresh
    /\ data \in Collections(RowPool, MaxRows)

Next ==
    \/ \E column \in Columns : toggleColumnSort(column)
    \/ \E column \in Columns : clearColumnSort(column)
    \/ clearTableSort
    \/ \E rows \in Collections(AssignPool, MaxRows) : SetData(rows)
    \/ \E flag \in BOOLEAN : SetMultiSort(flag)
    \/ getDisplayData

Spec == Init /\ [][Next]_vars

\* pagination over longer row collections
InitPage ==
    /\ Fresh
    /\ \E n \in 0..MaxPageRows : data = PageRows(n)

NextPage ==
    \/ \E size \in (0 - MaxNegative)..MaxPageSize : SetPageSize(size)
    \/ \E index \in (0 - MaxNegative)..MaxPageIndex : SetPageIndex(index)
    \/ getDisplayData
    \/ toggleColumnSort("colA")

SpecPage == InitPage /\ [][NextPage]_vars

\* the comparators on every pair of rows
InitCmp ==
    /\ Fresh
    /\ data \in [1..2 -> ComparePool]

NextCmp == \E column \in Columns : CompareRows(column)

SpecCmp == InitCmp /\ [][NextCmp]_vars

----------------------------------------------------------------------------
(* Properties of the sort-state store *)

Priorities(states) == { states[i].priority : i \in 1..Len(states) }

\* the precedence chain: the columns and directions in priority order
Chain(states) ==
    LET order == PriorityOrder(states)
    IN  [k \in 1..Len(states) |-> <<order[k].column, order[k].direction>>]

\* the priorities of the entries in priority order are 1, 2, .., N
Dense(states) ==
    LET order == PriorityOrder(states)
    IN  \A k \in 1..Len(states) : order[k].priority = k

Has(event) == \E i \in 1..Len(trace) : trace[i] = event

\* C1: in every reachable state the priorities of the entries of the store
\* are exactly 1..N, N the number of entries, and no two entries share one.
C1_PrioritiesContiguous ==
    /\ Priorities(sortStates) = 1..Len(sortStates)
    /\ \A i, j \in 1..Len(sortStates) :
        sortStates[i].priority = sortStates[j].priority => i = j

\* a column of priority 1 was cleared and two entries were renumbered
C1_Witness ==
    /\ call.op = "clearColumnSort"
    /\ Has(<<"delete", 1>>)
    /\ Len(sortStates) = 2

\* C2: a toggleColumnSort call gives its column direction 1 when the column
\* had no entry, and the opposite of its direction otherwise; so three calls
\* in a row on an unsorted column give 1, -1, 1. Both with and without
\* multiSort.
C2_ToggleCycle ==
    [][\A column \in Columns :
        (call' = Call("toggleColumnSort", column)) =>
            /\ MapHas(sortStates', column)
            /\ MapGet(sortStates', column).direction =
                IF ~MapHas(sortStates, column) THEN 1
                ELSE IF MapGet(sortStates, column).direction = 1 THEN -1 ELSE 1]_vars

\* the third call of the cycle in single-sort mode: the direction read
\* before the implicit clear was -1, the column is back to 1
C2_Witness ==
    /\ call.op = "toggleColumnSort"
    /\ ~multiSort
    /\ Has(<<"get", -1>>)
    /\ Has(<<"clear", 1>>)
    /\ MapHas(sortStates, call.column)
    /\ MapGet(sortStates, call.column).direction = 1

\* C3: with multiSort false, right after toggleColumnSort(colB) the store
\* has exactly one entry, for colB, with priority 1.
C3_SingleSortOneEntry ==
    (call.op = "toggleColumnSort" /\ ~multiSort) =>
        /\ Len(sortStates) = 1
        /\ sortStates[1].column = call.column
        /\ sortStates[1].priority = 1

\* the toggle dropped two entries of other columns
C3_Witness ==
    /\ call.op = "toggleColumnSort"
    /\ ~multiSort
    /\ Has(<<"clear", 2>>)
    /\ Has(<<"get", 0>>)
    /\ Len(sortStates) = 1

\* the chain with the entry of `column` left out
Without(chain, column) ==
    LET keep(e) == e[1] # column IN SelectSeq(chain, keep)

\* C4: in multi-sort mode a toggle of an unsorted column appends it to the
\* precedence chain (A then B gives [A, B]); clearColumnSort of a sorted
\* column removes only that column, keeps the order and the directions of the
\* others and leaves their priorities 1..N-1.
C4_ChainAppendAndClear ==
    [][\A column \in Columns :
        /\ (call' = Call("toggleColumnSort", column) /\ multiSort /\ ~MapHas(sortStates, column))
            => (Chain(sortStates') = Append(Chain(sortStates), <<column, 1>>)
                /\ Dense(sortStates'))
        /\ (call' = Call("clearColumnSort", column) /\ MapHas(sortStates, column))
            => (Chain(sortStates') = Without(Chain(sortStates), column)
                /\ Dense(sortStates'))]_vars

\* the column of priority 1 was cleared from a chain of three
C4_Witness ==
    /\ call.op = "clearColumnSort"
    /\ Has(<<"delete", 1>>)
    /\ Len(Chain(sortStates)) = 2
    /\ Chain(sortStates)[1][1] # Chain(sortStates)[2][1]
    /\ Dense(sortStates)

----------------------------------------------------------------------------
(* Properties of the row order *)

Absent(row, column) == row[Selector(column)].t \in {"undefined", "null"}

IsNumber(row, column) == row[Selector(column)].t = "number"

\* every sorted column holds numbers only
NumericColumns ==
    \A e \in Range(sortStates) : \A i \in 1..Len(data) : IsNumber(data[i], e.column)

\* within every sorted column the values that are not absent have one type
OneTypeColumns ==
    \A e \in Range(sortStates) : \A i, j \in 1..Len(data) :
        (~Absent(data[i], e.column) /\ ~Absent(data[j], e.column))
            => data[i][Selector(e.column)].t = data[j][Selector(e.column)].t

NumberOf(row, column) == row[Selector(column)].n

\* rowA may stand before rowB: the first column of the chain on which their
\* numbers differ has the smaller one first, times the direction; or none has
MayPrecede(chain, rowA, rowB) ==
    LET differ == { k \in 1..Len(chain) :
                        NumberOf(rowA, chain[k][1]) # NumberOf(rowB, chain[k][1]) }
    IN  \/ differ = {}
        \/ \E k \in differ :
            /\ \A m \in differ : k <= m
            /\ (NumberOf(rowA, chain[k][1]) - NumberOf(rowB, chain[k][1])) * chain[k][2] < 0

Ys(rows) == [i \in 1..Len(rows) |-> rows[i].y]

\* a toggleColumnSort or clearColumnSort call, and no assignment of data
\* since the last sort
AfterSortCall ==
    /\ call.op \in {"toggleColumnSort", "clearColumnSort"}
    /\ sortStates # <<>>
    /\ dataOrigin = "sorted"

\* C5: after a toggleColumnSort or clearColumnSort call that leaves the
\* store non-empty, over numeric columns, every row stands before the rows
\* after it by the composed comparator; rows 3,1,2 end as 1,2,3 under one
\* ascending column and as 3,2,1 under it descending.
C5_RowsOrderedByChain ==
    (AfterSortCall /\ NumericColumns) =>
        /\ \A i, j \in 1..Len(data) : i < j => MayPrecede(Chain(sortStates), data[i], data[j])
        /\ \A column \in {"colB", "colC"} :
            (Len(data) = 3 /\ Range(Ys(data)) = {Num(1), Num(2), Num(3)}) =>
                /\ Chain(sortStates) = << <<column, 1>> >>
                    => Ys(data) = <<Num(1), Num(2), Num(3)>>
                /\ Chain(sortStates) = << <<column, -1>> >>
                    => Ys(data) = <<Num(3), Num(2), Num(1)>>

\* the second toggle of the numeric column: 3, 2, 1
C5_Witness ==
    /\ call = Call("toggleColumnSort", "colB")
    /\ Has(<<"get", 1>>)
    /\ Chain(sortStates) = << <<"colB", -1>> >>
    /\ Ys(data) = <<Num(3), Num(2), Num(1)>>
    /\ AfterSortCall /\ NumericColumns

\* the column consulted first, sorted ascending
TopAscending(column) ==
    /\ sortStates # <<>>
    /\ dataOrigin = "sorted"
    /\ PriorityOrder(sortStates)[1].column = column
    /\ PriorityOrder(sortStates)[1].direction = 1

ConsistentCallback == ConsistentComparator(PriorityOrder(sortStates), data)

AbsentPositions(rows, column) == { i \in 1..Len(rows) : Absent(rows[i], column) }

\* C7: the rows with an absent value take the same positions whether the
\* column is sorted ascending or descending: a toggle that reverses the
\* direction of the column consulted first leaves the absent values where
\* they are.
C7_AbsentPlacementIgnoresDirection ==
    [][\A column \in Columns :
        (/\ call' = Call("toggleColumnSort", column)
         /\ sortStates # <<>> /\ dataOrigin = "sorted" /\ OneTypeColumns
         /\ PriorityOrder(sortStates)[1].column = column
         /\ PriorityOrder(sortStates')[1].column = column)
            => AbsentPositions(data', column) = AbsentPositions(data, column)]_vars

----------------------------------------------------------------------------
(* Properties of the comparators *)

\* the matcher handed to baseComparator for a column
MatcherOf(column) == IF Sortable(column) = "object" THEN "number" ELSE "default"

\* C8: baseComparator gives 0 for two absent or two identical values without
\* calling the matcher, -1 when only A's value is defined, 1 when only B's
\* is, and matcher(a, b) otherwise.
C8_BaseComparatorCases ==
    (call.op = "comparator") =>
        LET a == data[1][Selector(call.column)]
            b == data[2][Selector(call.column)]
            absentA == a.t \in {"undefined", "null"}
            absentB == b.t \in {"undefined", "null"}
        IN  /\ ((absentA /\ absentB) \/ a = b)
                => (ret.number = 0 /\ ~Has(<<"matcher", 0>>))
            /\ (~absentA /\ absentB) => (ret.number = -1 /\ ~Has(<<"matcher", 0>>))
            /\ (absentA /\ ~absentB) => (ret.number = 1 /\ ~Has(<<"matcher", 0>>))
            /\ (~absentA /\ ~absentB /\ a # b)
                => (ret.number = Matcher(MatcherOf(call.column), a, b)
                    /\ Has(<<"matcher", 0>>))

\* only A's value is defined: -1, so that B stands at the end
C8_Witness ==
    /\ call.op = "comparator"
    /\ data[1][Selector(call.column)].t = "number"
    /\ data[2][Selector(call.column)].t = "null"
    /\ ret.number = -1

----------------------------------------------------------------------------
(* Properties of clearTableSort and of the pagination *)

\* C9: clearTableSort leaves the store empty and the rows in the order they
\* had before the call.
C9_ClearTableKeepsRows ==
    [][(call' = Call("clearTableSort", "none")) =>
        (sortStates' = <<>> /\ data' = data)]_vars

\* two entries were dropped and the rows kept their sorted order
C9_Witness ==
    /\ call.op = "clearTableSort"
    /\ Has(<<"clear", 2>>)
    /\ sortStates = <<>>
    /\ dataOrigin = "sorted"
    /\ Ys(data) = <<Num(3), Num(2), Num(1)>>

Min(a, b) == IF a < b THEN a ELSE b

\* C10: for pageSize > 0, pageCount is the least k with k * pageSize >=
\* len(data); for 0 <= pageIndex < pageCount getDisplayData returns the rows
\* at positions pageIndex*pageSize .. min(pageIndex*pageSize + pageSize,
\* len(data)) - 1 in their order; the call changes neither rows nor store.
C10_PageSlice ==
    /\ [](pageSize > 0 =>
            /\ PageCount(data, pageSize) * pageSize >= Len(data)
            /\ (PageCount(data, pageSize) - 1) * pageSize < Len(data))
    /\ []((call.op = "getDisplayData" /\ pageSize > 0
            /\ 0 <= pageIndex /\ pageIndex < PageCount(data, pageSize)) =>
            LET first == pageIndex * pageSize
                last == Min(pageIndex * pageSize + pageSize, Len(data)) - 1
            IN  /\ Len(ret.rows) = last - first + 1
                /\ \A p \in first..last : ret.rows[p - first + 1] = data[p + 1])
    /\ [][(call' = Call("getDisplayData", "none")) =>
            (data' = data /\ sortStates' = sortStates)]_vars

\* 10 rows sorted descending, pageSize 3, pageIndex 1: positions 3, 4, 5 and
\* four pages
C10_Witness ==
    /\ call.op = "getDisplayData"
    /\ Len(data) = 10 /\ pageSize = 3 /\ pageIndex = 1
    /\ sortStates # <<>>
    /\ data[1].x = Num(10)
    /\ ret.rows = <<data[4], data[5], data[6]>>
    /\ PageCount(data, pageSize) = 4

----------------------------------------------------------------------------
(* Properties of the sort in place *)

Occurrences(rows, row) == Cardinality({ i \in 1..Len(rows) : rows[i] = row })

\* rowsB holds the rows of rowsA, each as many times
Permutation(rowsA, rowsB) ==
    /\ Len(rowsA) = Len(rowsB)
    /\ \A row \in Range(rowsA) \cup Range(rowsB) :
        Occurrences(rowsA, row) = Occurrences(rowsB, row)

\* C11: every toggleColumnSort, clearColumnSort and clearTableSort call
\* leaves in `data` a permutation of the rows it held before the call (the
\* same rows as many times, the same length); so does every sequence of
\* such calls.
C11_SortKeepsRows ==
    [][(call'.op \in {"toggleColumnSort", "clearColumnSort", "clearTableSort"})
        => Permutation(data, data')]_vars

\* a sort over a column on which two of the three rows compare equal: the
\* rows with x = 10 stand first under colA descending
C11_Witness ==
    /\ call = Call("toggleColumnSort", "colA")
    /\ Has(<<"sortData", 0>>)
    /\ Chain(sortStates) = << <<"colA", -1>> >>
    /\ data = <<Row(Num(10), Num(1)), Row(Num(10), Num(3)), Row(Num(2), Num(3))>>

\* the sorted columns all use the default comparator and `rows` have a
\* number or a text in each of them
DefaultOverValues(states, rows) ==
    \A e \in Range(states) :
        /\ Sortable(e.column) # "object"
        /\ \A row \in rows : ~Absent(row, e.column)

\* C12: the sort callback composed from the default comparator is a total
\* order on rows holding numbers or text: cmp(a, b) and cmp(b, a) have
\* opposite signs, and cmp(a, b) <= 0 and cmp(b, c) <= 0 imply
\* cmp(a, c) <= 0, for every direction and every precedence chain.
C12_ComparatorTotalOrder ==
    LET priorityOrder == PriorityOrder(sortStates)
        rows == Range(data)
    IN  (sortStates # <<>> /\ DefaultOverValues(sortStates, rows)) =>
            /\ \A rowA, rowB \in rows :
                Sign(RowCompare(priorityOrder, rowA, rowB))
                    = 0 - Sign(RowCompare(priorityOrder, rowB, rowA))
            /\ \A rowA, rowB, rowC \in rows :
                (RowCompare(priorityOrder, rowA, rowB) <= 0
                    /\ RowCompare(priorityOrder, rowB, rowC) <= 0)
                    => RowCompare(priorityOrder, rowA, rowC) <= 0

----------------------------------------------------------------------------
(* Properties of the modes and of assignments by the host *)

\* C13: in every reachable state in which multiSort is false the store
\* holds at most one entry.
C13_SingleSortAtMostOne == ~multiSort => Len(sortStates) <= 1

\* C14: whenever the store is not empty, also after a new row collection
\* was assigned to `data` while columns are sorted, the rows returned by
\* getDisplayData without pagination are ordered by the precedence chain
\* and the directions of the store (stated over numeric columns).
C14_DisplayDataOrdered ==
    (call.op = "getDisplayData" /\ pageSize = 0 /\ sortStates # <<>> /\ NumericColumns) =>
        \A i, j \in 1..Len(ret.rows) :
            i < j => MayPrecede(Chain(sortStates), ret.rows[i], ret.rows[j])

----------------------------------------------------------------------------
(* Properties of the pagination outside its range *)

\* C15: for every pageSize not greater than 0 (zero and negative) and every
\* pageIndex, getDisplayData returns the whole row collection, and
\* pageCount is 0.
C15_NoPaginationReturnsAll ==
    (call.op = "getDisplayData" /\ pageSize <= 0) =>
        (ret.rows = data /\ PageCount(data, pageSize) = 0)

\* C16: with pageSize > 0, for every pageIndex out of range (at least
\* pageCount, or negative) getDisplayData returns an empty slice and leaves
\* the row collection as it is.
C16_OutOfRangeIsEmpty ==
    /\ []((call.op = "getDisplayData" /\ pageSize > 0
            /\ (pageIndex >= PageCount(data, pageSize) \/ pageIndex < 0))
            => ret.rows = <<>>)
    /\ [][(call' = Call("getDisplayData", "none") /\ pageSize > 0
            /\ (pageIndex >= PageCount(data, pageSize) \/ pageIndex < 0))
            => data' = data]_vars

----------------------------------------------------------------------------
(* Frame of the multi-sort toggle and of clearColumnSort *)

\* the entries of the columns other than `column` are the same in both
EntriesKept(statesA, statesB, column) ==
    \A other \in Columns \ {column} :
        /\ MapHas(statesB, other) = MapHas(statesA, other)
        /\ MapHas(statesA, other) => MapGet(statesB, other) = MapGet(statesA, other)

\* C17: in multi-sort mode toggleColumnSort on a column that has an entry
\* flips the direction of that entry and keeps its priority; every other
\* entry keeps its direction and its priority.
C17_ToggleFlipsOnlyDirection ==
    [][\A column \in Columns :
        (call' = Call("toggleColumnSort", column) /\ multiSort /\ MapHas(sortStates, column)) =>
            /\ MapHas(sortStates', column)
            /\ MapGet(sortStates', column).direction
                = 0 - MapGet(sortStates, column).direction
            /\ MapGet(sortStates', column).priority = MapGet(sortStates, column).priority
            /\ Len(sortStates') = Len(sortStates)
            /\ EntriesKept(sortStates, sortStates', column)]_vars

\* the column of priority 2 in a chain of three was turned to descending
C17_Witness ==
    /\ call.op = "toggleColumnSort"
    /\ multiSort
    /\ Has(<<"update", -1>>)
    /\ Len(sortStates) = 3
    /\ MapGet(sortStates, call.column) = [column |-> call.column, direction |-> -1, priority |-> 2]

\* the greatest of the priorities of a non-empty store
MaxPriority(states) ==
    CHOOSE p \in Priorities(states) : \A q \in Priorities(states) : q <= p

\* C18: in multi-sort mode toggleColumnSort on a column without an entry
\* inserts it with direction 1 and with priority 1 in an empty store and
\* the greatest priority + 1 otherwise, last in the precedence chain; every
\* existing entry keeps its direction and its priority.
C18_ToggleInsertsLast ==
    [][\A column \in Columns :
        (call' = Call("toggleColumnSort", column) /\ multiSort /\ ~MapHas(sortStates, column)) =>
            /\ MapHas(sortStates', column)
            /\ MapGet(sortStates', column).direction = 1
            /\ MapGet(sortStates', column).priority
                = IF sortStates = <<>> THEN 1 ELSE MaxPriority(sortStates) + 1
            /\ Len(sortStates') = Len(sortStates) + 1
            /\ Chain(sortStates')[Len(sortStates')] = <<column, 1>>
            /\ EntriesKept(sortStates, sortStates', column)]_vars

\* a third column was inserted behind a descending and an ascending one
C18_Witness ==
    /\ call.op = "toggleColumnSort"
    /\ multiSort
    /\ Has(<<"insert", 1>>)
    /\ Len(sortStates) = 3
    /\ MapGet(sortStates, call.column).priority = 3
    /\ Chain(sortStates)[1][2] = -1
    /\ Chain(sortStates)[2][2] = 1

\* C19: clearColumnSort on a column without an entry changes neither the
\* store nor the rows; on the only entry of the store it removes the entry
\* and leaves the rows in their order; sortData runs only if entries remain.
C19_ClearColumnKeepsRows ==
    [][\A column \in Columns :
        (call' = Call("clearColumnSort", column)) =>
            /\ ~MapHas(sortStates, column) => (sortStates' = sortStates /\ data' = data)
            /\ (MapHas(sortStates, column) /\ Len(sortStates) = 1)
                => (sortStates' = <<>> /\ data' = data)
            /\ (\E i \in 1..Len(trace') : trace'[i] = <<"sortData", 0>>)
                => (sortStates' # <<>> /\ MapHas(sortStates, column))]_vars

\* the only entry was cleared and the rows kept the descending order
C19_Witness ==
    /\ call = Call("clearColumnSort", "colB")
    /\ Has(<<"delete", 1>>)
    /\ ~Has(<<"sortData", 0>>)
    /\ sortStates = <<>>
    /\ dataOrigin = "sorted"
    /\ Ys(data) = <<Num(3), Num(2), Num(1)>>

----------------------------------------------------------------------------
(* Properties of the refresh requests *)

\* the number of requestUpdate calls made by the last operation
Refreshes == Cardinality({ i \in 1..Len(trace) : trace[i] = <<"requestUpdate", 0>> })

\* C20: every toggleColumnSort, clearColumnSort and clearTableSort call
\* requests a refresh, also when it changes nothing; a clearTableSort call
\* requests exactly one.
C20_EveryCallRequestsRefresh ==
    /\ (call.op \in {"toggleColumnSort", "clearColumnSort", "clearTableSort"}) => Refreshes >= 1
    /\ (call.op = "clearTableSort") => Refreshes = 1

\* a column without an entry was cleared in a store holding another one:
\* nothing but the refresh request happened
C20_Witness ==
    /\ call.op = "clearColumnSort"
    /\ ~MapHas(sortStates, call.column)
    /\ sortStates # <<>>
    /\ trace = << <<"requestUpdate", 0>> >>

\* the events of a call that write the store or the rows
Mutations == {"clear", "insert", "update", "delete", "sortData"}

SortCall == call.op \in {"toggleColumnSort", "clearColumnSort", "clearTableSort"}

\* C21 as stated: within one toggleColumnSort, clearColumnSort or
\* clearTableSort call no refresh is requested while a write of the store or
\* the re-sort of that call is still to come, in particular not between the
\* implicit clear and the set of a single-sort toggle.
C21_NoRefreshBeforeCompletion ==
    SortCall =>
        \A i, j \in 1..Len(trace) :
            (trace[i] = <<"requestUpdate", 0>> /\ i < j) => trace[j][1] \notin Mutations

\* C21 amended: each such call ends with a refresh request, made after its
\* store writes and its re-sort; no refresh is requested earlier in the call,
\* except that a single-sort toggle requests one right after its implicit
\* clear, before the set and the re-sort.
C21_RefreshLastAndAfterImplicitClear ==
    SortCall =>
        /\ trace # <<>>
        /\ trace[Len(trace)] = <<"requestUpdate", 0>>
        /\ \A i \in 1..(Len(trace) - 1) :
            (trace[i] = <<"requestUpdate", 0>>) =>
                (call.op = "toggleColumnSort" /\ ~multiSort /\ i = 3 /\ trace[2][1] = "clear")
        /\ (call.op = "toggleColumnSort" /\ ~multiSort) =>
            (trace[2][1] = "clear" /\ trace[3] = <<"requestUpdate", 0>>
                /\ \E j \in 4..Len(trace) : trace[j][1] \in Mutations)

\* a single-sort toggle of the sorted column: the refresh requested by the
\* implicit clear precedes the insert and the re-sort
C21_Witness ==
    /\ call.op = "toggleColumnSort"
    /\ ~multiSort
    /\ trace = << <<"get", 1>>, <<"clear", 1>>, <<"requestUpdate", 0>>,
                  <<"insert", -1>>, <<"sortData", 0>>, <<"requestUpdate", 0>> >>
    /\ Len(data) = 3

====
